---- MODULE Spec2Model ----
(***************************************************************************)
(* TicketBoard frontend: the axios client with its two interceptors, the   *)
(* session provider (useAuth), the ticket hook (useTickets), the health    *)
(* hook (useApiHealth), the views that call them, and the legacy App of    *)
(* the create-react-app revision.  The backend is an external REST server; *)
(* it is modelled by its contract only.                                    *)
(*                                                                         *)
(* JavaScript runs one task at a time: every action below is one task      *)
(* (a user event, a timer tick, a page load, or the arrival of a response  *)
(* together with the promise continuations it wakes).                      *)
(***************************************************************************)
EXTENDS Integers, Sequences, FiniteSets, TLC

(* ------------------------------ bounds -------------------------------- *)
\* requests a hook may have outstanding at once
MaxInFlight == 2
\* identifiers the server hands out before it refuses to create more
MaxId == 2
\* ticket calls made by the consumers of a document after its mount
MaxCalls == 3

(* ------------------------------ values -------------------------------- *)
\* JavaScript null / undefined: an absent value
Absent == "<absent>"
Tokens == {"t1", "t2"}
Users == {"alice", "bob"}
Routes == {"/login", "/", "/tickets"}
Protected == {"/", "/tickets"}
Unauthorized == 401
NoResponse == 0
ServerMsg == "server message"
\* titles are character sequences, so that trim() can be computed
Titles == {<<"P">>}
AppTitles == {<<>>, <<" ">>, <<" ", "S">>}

\* JavaScript truthiness of a string-or-absent value: if (token), a || b
Truthy(v) == v # Absent /\ v # ""

\* a || b
Or(a, b) == IF Truthy(a) THEN a ELSE b

VARIABLES
  token,          \* localStorage['authToken']
  user,           \* AuthProvider: user
  authLoading,    \* AuthProvider: loading
  route,          \* router location
  navPending,     \* window.location.href was assigned, the document is still alive
  formError,      \* Login view: error
  formLoading,    \* Login view: loading
  authNet,        \* outstanding verify / login / register requests, in issue order
  tickets,        \* useTickets: tickets
  loading,        \* useTickets: loading
  error,          \* useTickets: error
  ticketsMounted, \* a view using useTickets is mounted
  ticketNet,      \* outstanding ticket requests, in issue order
  backendStatus,  \* useApiHealth: backendStatus
  dbStatus,       \* useApiHealth: dbStatus
  timerActive,    \* the setInterval handle is live
  healthNet,      \* outstanding health probes, in issue order
  srvTickets,     \* backend: the ticket table, newest first
  nextId,         \* backend: next identifier to assign
  appMounted,     \* the legacy App is the document that is open
  appTickets,     \* legacy App: tickets
  title,          \* legacy App: title
  appNet,         \* legacy App: outstanding fetch() calls
  calls,          \* ticket calls made since the document loaded
  hCreated,       \* history: identifiers whose creation a createTicket call has reported
  hDeleted,       \* history: identifiers whose deletion a deleteTicket call has reported
  hLast,          \* history: how the fetch issued last settled, while older fetches are outstanding
  ret             \* how the call that completed in the last step ended

authVars == <<token, user, authLoading, route, navPending, formError, formLoading, authNet>>
hookVars == <<tickets, loading, error, ticketsMounted, ticketNet>>
healthVars == <<backendStatus, dbStatus, timerActive, healthNet>>
srvVars == <<srvTickets, nextId>>
appVars == <<appMounted, appTickets, title, appNet>>
histVars == <<calls, hCreated, hDeleted, hLast>>
vars == <<authVars, hookVars, healthVars, srvVars, appVars, histVars, ret>>

(* --------------------------- sequence helpers -------------------------- *)
RemoveAt(s, i) == SubSeq(s, 1, i - 1) \o SubSeq(s, i + 1, Len(s))

Ids(s) == {s[i].id : i \in 1..Len(s)}
Count(s, id) == Cardinality({i \in 1..Len(s) : s[i].id = id})

(* ----------------------------- responses ------------------------------ *)
\* A settled request: status 0 is "no response" (network failure, timeout),
\* message is response.data.message, data the payload of a 2xx response.
Failure(status, message) == [status |-> status, message |-> message, data |-> <<>>]
Success(data) == [status |-> 200, message |-> Absent, data |-> data]

\* the ways a request can fail without the backend's ticket logic being involved
Failures ==
  {Failure(NoResponse, Absent)} \cup
  {Failure(s, m) : s \in {Unauthorized, 500}, m \in {Absent, "", ServerMsg}}

IsOk(out) == out.status = 200

\* no call completed in the last step
NoRet == [op |-> "none"]
\* a call that returned value after its request settled as out
Returned(op, req, out, value) ==
  [op |-> op, threw |-> FALSE, arg |-> req.arg, hist |-> req.hist, live |-> req.live,
   out |-> out, value |-> value]
\* a call whose promise rejected
Threw(op, req, out) ==
  [op |-> op, threw |-> TRUE, arg |-> req.arg, hist |-> req.hist, live |-> req.live,
   out |-> out, value |-> Absent]
NoArg == [none |-> TRUE]

(* --------------------------- HTTP client ------------------------------ *)
\* `Bearer ${token}`
Bearer(tok) == "Bearer " \o tok

\* a variant of the request interceptor that never sets the header
AuthHeaderNone == Absent

\* api.interceptors.request: the Authorization header of a request sent now
AuthHeader == IF Truthy(token) THEN Bearer(token) ELSE Absent

Request(kind, arg, hist) ==
  [kind |-> kind, auth |-> AuthHeader, arg |-> arg, processed |-> FALSE,
   res |-> Failure(NoResponse, Absent), live |-> TRUE, hist |-> hist]

\* a variant that clears the session on every error
InterceptTokenAlways(out) == Absent

\* api.interceptors.response, error branch: return Promise.reject(error)
Rejected(out) == out

\* api.interceptors.response, error branch: what it leaves in localStorage
InterceptToken(out) == IF out.status = Unauthorized THEN Absent ELSE token

\* api.interceptors.response, error branch: window.location.href = '/login'
InterceptNav(out) == navPending \/ out.status = Unauthorized

\* a variant that forgets the fallback: err.response?.data?.message
ErrorMessageNoFallback(out, generic) ==
  IF out.status = NoResponse THEN Absent ELSE out.message

\* err.response?.data?.message || generic
ErrorMessage(out, generic) ==
  Or(IF out.status = NoResponse THEN Absent ELSE out.message, generic)

(* ------------------------------ routing ------------------------------- *)
\* a variant without the isAuthenticated test
ProtectedRouteOpen(isAuthenticated, isLoading) ==
  IF isLoading THEN "loading" ELSE "children"

\* ProtectedRoute: what the element of a protected route renders
ProtectedRoute(isAuthenticated, isLoading) ==
  IF isLoading THEN "loading"
  ELSE IF isAuthenticated THEN "children" ELSE "redirect"

\* the location after the routes have rendered with the given session state
RouteAfter(r, u, l) ==
  IF r \in Protected /\ ProtectedRoute(u # Absent, l) = "redirect" THEN "/login" ELSE r

\* requests whose issuing view instance has been unmounted: React drops the
\* state updates of their continuations
Orphan(net) == [i \in 1..Len(net) |-> [net[i] EXCEPT !.live = FALSE]]

(* ------------------------- session provider --------------------------- *)
\* AuthProvider.checkAuth up to its await: the verify request, if a token is stored
CheckAuthRequests ==
  IF Truthy(token) THEN <<Request("verify", NoArg, {})>> ELSE <<>>

\* useApiHealth.checkHealth up to its first await
CheckHealthRequests == <<Request("backend", NoArg, {})>>

\* what the callers have been told so far, kept with each list request
Known == [created |-> hCreated, deleted |-> hDeleted]

\* history kept with each mutator request: whether it was issued with no other
\* request outstanding and with the hook's list equal to the backend's table
InSync == [synced |-> ticketNet = <<>> /\ tickets = srvTickets]

\* nothing is recorded about the fetch issued last
NoLast == [state |-> "none", data |-> <<>>]

\* legacy api.js: a fetch() call; no interceptor, no Authorization header
AppRequest(kind, arg, hist) == [Request(kind, arg, hist) EXCEPT !.auth = Absent]

\* legacy App: fetchTickets up to its await
AppFetchRequests == <<AppRequest("list", NoArg, Known)>>

\* The document after it has loaded at location r and its mount effects have run.
Init ==
  /\ calls = 0
  /\ hCreated = {}
  /\ hDeleted = {}
  /\ hLast = NoLast
  /\ token \in Tokens \cup {Absent}
  /\ user = Absent
  /\ authLoading = Truthy(token)
  /\ \E r \in Routes : route = RouteAfter(r, Absent, Truthy(token))
  /\ navPending = FALSE
  /\ formError = ""
  /\ formLoading = FALSE
  /\ authNet = CheckAuthRequests
  /\ tickets = <<>>
  /\ loading = FALSE
  /\ error = Absent
  /\ ticketsMounted = FALSE
  /\ ticketNet = <<>>
  /\ backendStatus = "checking"
  /\ dbStatus = "checking"
  /\ timerActive = TRUE
  /\ healthNet = CheckHealthRequests
  /\ srvTickets = <<>>
  /\ nextId = 1
  /\ appMounted \in BOOLEAN
  /\ appTickets = <<>>
  /\ title = <<>>
  /\ appNet = IF appMounted THEN AppFetchRequests ELSE <<>>
  /\ ret = NoRet

\* The browser commits the navigation that the response interceptor started:
\* the old document with its React state and its pending requests is gone,
\* the application starts again at /login.
PageLoad ==
  /\ navPending
  /\ navPending' = FALSE
  /\ route' = "/login"
  /\ user' = Absent
  /\ authLoading' = Truthy(token)
  /\ formError' = ""
  /\ formLoading' = FALSE
  /\ authNet' = CheckAuthRequests
  /\ tickets' = <<>>
  /\ loading' = FALSE
  /\ error' = Absent
  /\ ticketsMounted' = FALSE
  /\ ticketNet' = <<>>
  /\ backendStatus' = "checking"
  /\ dbStatus' = "checking"
  /\ timerActive' = TRUE
  /\ healthNet' = CheckHealthRequests
  /\ calls' = 0
  /\ hLast' = NoLast
  /\ ret' = NoRet
  /\ UNCHANGED <<token, srvVars, appVars, hCreated, hDeleted>>

\* Login.handleSubmit up to its await
Submit(kind, username) ==
  /\ route = "/login"
  /\ ~formLoading
  /\ ~navPending
  /\ Len(authNet) < MaxInFlight
  /\ formLoading' = TRUE
  /\ formError' = ""
  /\ authNet' = Append(authNet, Request(kind, [username |-> username], {}))
  /\ ret' = NoRet
  /\ UNCHANGED <<token, user, authLoading, route, navPending>>
  /\ UNCHANGED <<hookVars, healthVars, srvVars, appVars, histVars>>

\* checkAuth: the verify request succeeded
VerifyOk(i, u) ==
  /\ i \in 1..Len(authNet)
  /\ authNet[i].kind = "verify"
  /\ user' = u
  /\ authLoading' = FALSE
  /\ route' = RouteAfter(route, u, FALSE)
  /\ authNet' = RemoveAt(authNet, i)
  /\ ret' = Returned("checkAuth", authNet[i], Success(u), Absent)
  /\ UNCHANGED <<token, navPending, formError, formLoading>>
  /\ UNCHANGED <<hookVars, healthVars, srvVars, appVars, histVars>>

\* checkAuth: the verify request failed
VerifyFail(i, f) ==
  /\ i \in 1..Len(authNet)
  /\ authNet[i].kind = "verify"
  /\ token' = Absent
  /\ navPending' = InterceptNav(f)
  /\ authLoading' = FALSE
  /\ route' = RouteAfter(route, user, FALSE)
  /\ authNet' = RemoveAt(authNet, i)
  /\ ret' = Returned("checkAuth", authNet[i], Rejected(f), Absent)
  /\ UNCHANGED <<user, formError, formLoading>>
  /\ UNCHANGED <<hookVars, healthVars, srvVars, appVars, histVars>>

\* what AuthProvider.login / register return when the request fails
AuthFailure(kind, f) ==
  [success |-> FALSE,
   error |-> ErrorMessage(f, IF kind = "login" THEN "Error en el login"
                                               ELSE "Error en el registro")]

\* a variant that forgets setUser(user)
SessionUserKept(data) == user

\* what AuthProvider.login / register pass to setUser on success
SessionUser(data) == data.user

\* a variant that forgets localStorage.setItem
StoredTokenKept(data) == token

\* what AuthProvider.login / register write to localStorage on success
StoredToken(data) == data.token

\* login / register succeeded; Login.handleSubmit then navigates to "/"
LoginOk(i, tok) ==
  /\ i \in 1..Len(authNet)
  /\ authNet[i].kind \in {"login", "register"}
  /\ LET data == [token |-> tok, user |-> authNet[i].arg.username] IN
     /\ token' = StoredToken(data)
     /\ user' = SessionUser(data)
     /\ route' = RouteAfter("/", data.user, authLoading)
     /\ ret' = Returned(authNet[i].kind, authNet[i], Success(data), [success |-> TRUE, error |-> Absent])
  /\ formError' = ""
  /\ formLoading' = FALSE
  /\ authNet' = Orphan(RemoveAt(authNet, i))
  /\ UNCHANGED <<authLoading, navPending>>
  /\ UNCHANGED <<hookVars, healthVars, srvVars, appVars, histVars>>

\* login / register failed; Login.handleSubmit then shows the error
LoginFail(i, f) ==
  /\ i \in 1..Len(authNet)
  /\ authNet[i].kind \in {"login", "register"}
  /\ token' = InterceptToken(f)
  /\ navPending' = InterceptNav(f)
  /\ LET result == AuthFailure(authNet[i].kind, Rejected(f)) IN
     /\ ret' = Returned(authNet[i].kind, authNet[i], Rejected(f), result)
     /\ formError' = IF authNet[i].live THEN result.error ELSE formError
  /\ formLoading' = IF authNet[i].live THEN FALSE ELSE formLoading
  /\ authNet' = RemoveAt(authNet, i)
  /\ UNCHANGED <<user, authLoading, route>>
  /\ UNCHANGED <<hookVars, healthVars, srvVars, appVars, histVars>>

\* a variant of logout that forgets authService.logout()
LogoutKeepsToken(s) == [s EXCEPT !.user = Absent]

\* AuthProvider.logout: authService.logout() removes authToken, then setUser(null)
LogoutState(s) == [s EXCEPT !.token = Absent, !.user = Absent]

\* Navbar.handleLogout: AuthProvider.logout, then navigate('/login')
HandleLogout ==
  /\ user # Absent
  /\ ~navPending
  /\ LET after == LogoutState([token |-> token, user |-> user]) IN
     /\ token' = after.token
     /\ user' = after.user
  /\ route' = "/login"
  /\ ret' = [op |-> "logout", threw |-> FALSE, value |-> Absent, had |-> token]
  /\ UNCHANGED <<authLoading, navPending, formError, formLoading, authNet>>
  /\ UNCHANGED <<hookVars, healthVars, srvVars, appVars, histVars>>

\* a Navbar link is followed: the brand link always, the others when authenticated
Navigate(r) ==
  /\ r \in Protected
  /\ r # route
  /\ r = "/" \/ user # Absent
  /\ ~navPending
  /\ route' = RouteAfter(r, user, authLoading)
  /\ formError' = ""
  /\ formLoading' = FALSE
  /\ authNet' = IF route = "/login" THEN Orphan(authNet) ELSE authNet
  /\ ret' = NoRet
  /\ UNCHANGED <<token, user, authLoading, navPending>>
  /\ UNCHANGED <<hookVars, healthVars, srvVars, appVars, histVars>>

NextSession ==
  \/ \E k \in {"login", "register"}, u \in Users : Submit(k, u)
  \/ \E i \in 1..MaxInFlight, u \in Users : VerifyOk(i, u)
  \/ \E i \in 1..MaxInFlight, f \in Failures : VerifyFail(i, f)
  \/ \E i \in 1..MaxInFlight, t \in Tokens : LoginOk(i, t)
  \/ \E i \in 1..MaxInFlight, f \in Failures : LoginFail(i, f)
  \/ HandleLogout
  \/ \E r \in Routes : Navigate(r)
  \/ PageLoad

SpecSession == Init /\ [][NextSession]_vars

(* ------------------------------ backend ------------------------------- *)
\* the record the backend stores for POST /tickets
NewTicket(id, data) == [id |-> id, title |-> data.title, status |-> "OPEN"]

\* the record the backend stores for PUT /tickets/:id
Merged(t, data) == [t EXCEPT !.status = data.status]

\* The backend handles a ticket request: <<response, ticket table, next id>>.
Served(req) ==
  CASE req.kind = "list" ->
         <<Success(srvTickets), srvTickets, nextId>>
    [] req.kind = "create" ->
         LET t == NewTicket(nextId, req.arg.data) IN
         <<Success(t), <<t>> \o srvTickets, nextId + 1>>
    [] req.kind = "update" ->
         IF req.arg.id \in Ids(srvTickets)
         THEN LET i == CHOOSE j \in 1..Len(srvTickets) : srvTickets[j].id = req.arg.id
                  t == Merged(srvTickets[i], req.arg.data) IN
              <<Success(t), [srvTickets EXCEPT ![i] = t], nextId>>
         ELSE <<Failure(404, ServerMsg), srvTickets, nextId>>
    [] req.kind = "delete" ->
         IF req.arg.id \in Ids(srvTickets)
         THEN <<Success(<<>>), SelectSeq(srvTickets, LAMBDA t : t.id # req.arg.id), nextId>>
         ELSE <<Failure(404, ServerMsg), srvTickets, nextId>>

CanServe(req) == ~req.processed /\ (req.kind = "create" => nextId <= MaxId)

\* the backend handles the i-th outstanding request of the ticket hook
ServeHook(i) ==
  /\ i \in 1..Len(ticketNet)
  /\ CanServe(ticketNet[i])
  /\ LET r == Served(ticketNet[i]) IN
     /\ ticketNet' = [ticketNet EXCEPT ![i].processed = TRUE, ![i].res = r[1]]
     /\ srvTickets' = r[2]
     /\ nextId' = r[3]
  /\ ret' = NoRet
  /\ UNCHANGED <<tickets, loading, error, ticketsMounted>>
  /\ UNCHANGED <<authVars, healthVars, appVars, histVars>>

\* the ways the i-th request of a net can fail
FailuresOf(req) ==
  Failures \cup
  (IF req.processed /\ ~IsOk(req.res) THEN {Failure(req.res.status, req.res.message)} ELSE {})

(* ----------------------------- useTickets ----------------------------- *)
\* useTickets mounts with a protected view; its effect calls fetchTickets
MountTickets ==
  /\ ~ticketsMounted
  /\ ~navPending
  /\ route \in Protected
  /\ ProtectedRoute(user # Absent, authLoading) = "children"
  /\ Len(ticketNet) < MaxInFlight
  /\ ticketsMounted' = TRUE
  /\ tickets' = <<>>
  /\ loading' = TRUE
  /\ error' = Absent
  /\ ticketNet' = Append(ticketNet, Request("list", NoArg, Known))
  /\ ret' = NoRet
  /\ UNCHANGED <<authVars, healthVars, srvVars, appVars, histVars>>

\* the view that uses the hook goes away
UnmountTickets ==
  /\ ticketsMounted
  /\ ~navPending
  /\ ticketsMounted' = FALSE
  /\ tickets' = <<>>
  /\ loading' = FALSE
  /\ error' = Absent
  /\ ticketNet' = Orphan(ticketNet)
  /\ ret' = NoRet
  /\ UNCHANGED <<authVars, healthVars, srvVars, appVars, histVars>>

\* a ticket call is made: the request goes out
CallHook(kind, arg) ==
  /\ ticketsMounted
  /\ ~navPending
  /\ Len(ticketNet) < MaxInFlight
  /\ calls < MaxCalls
  /\ calls' = calls + 1
  /\ ticketNet' = Append(ticketNet, Request(kind, arg, IF kind = "list" THEN Known ELSE InSync))
  /\ ret' = NoRet
  /\ hLast' = IF kind = "list" THEN NoLast ELSE hLast
  /\ UNCHANGED <<tickets, ticketsMounted, hCreated, hDeleted>>
  /\ UNCHANGED <<authVars, healthVars, srvVars, appVars>>

\* fetchTickets up to its await
FetchTickets ==
  /\ CallHook("list", NoArg)
  /\ loading' = TRUE
  /\ error' = Absent

\* createTicket up to its await
CreateTicket(data) ==
  /\ CallHook("create", [id |-> 0, data |-> data])
  /\ UNCHANGED <<loading, error>>

\* updateTicket up to its await
UpdateTicket(id, data) ==
  /\ CallHook("update", [id |-> id, data |-> data])
  /\ UNCHANGED <<loading, error>>

\* deleteTicket up to its await
DeleteTicket(id) ==
  /\ CallHook("delete", [id |-> id, data |-> NoArg])
  /\ UNCHANGED <<loading, error>>

\* a variant that merges instead of replacing: [...prev, ...response.data]
FetchedMerged(prev, data) == prev \o data

\* setTickets(response.data)
Fetched(prev, data) == data

\* a variant that appends: [...prev, response.data]
Appended(prev, t) == prev \o <<t>>

\* setTickets(prev => [response.data, ...prev])
Prepended(prev, t) == <<t>> \o prev

\* a variant that ignores the identifier: prev.map(() => response.data)
ReplacedAll(prev, id, t) == [i \in 1..Len(prev) |-> t]

\* setTickets(prev => prev.map(ticket => ticket.id === id ? response.data : ticket))
Replaced(prev, id, t) ==
  [i \in 1..Len(prev) |-> IF prev[i].id = id THEN t ELSE prev[i]]

\* a variant with the test inverted: prev.filter(ticket => ticket.id === id)
RemovedInverted(prev, id) == SelectSeq(prev, LAMBDA x : x.id = id)

\* setTickets(prev => prev.filter(ticket => ticket.id !== id))
Removed(prev, id) == SelectSeq(prev, LAMBDA x : x.id # id)

\* the i-th request of the hook settles with a 2xx response
HookOk(i, kind) ==
  /\ i \in 1..Len(ticketNet)
  /\ ticketNet[i].kind = kind
  /\ ticketNet[i].processed
  /\ IsOk(ticketNet[i].res)
  /\ ticketNet' = RemoveAt(ticketNet, i)
  /\ UNCHANGED <<ticketsMounted>>
  /\ UNCHANGED <<authVars, healthVars, srvVars, appVars>>

\* the i-th request of the hook settles with an error, through the response interceptor
HookFail(i, kind, f) ==
  /\ i \in 1..Len(ticketNet)
  /\ ticketNet[i].kind = kind
  /\ f \in FailuresOf(ticketNet[i])
  /\ ticketNet' = RemoveAt(ticketNet, i)
  /\ token' = InterceptToken(f)
  /\ navPending' = InterceptNav(f)
  /\ UNCHANGED <<ticketsMounted>>
  /\ UNCHANGED <<user, authLoading, route, formError, formLoading, authNet>>
  /\ UNCHANGED <<healthVars, srvVars, appVars, calls, hCreated, hDeleted>>

\* a variant that returns the server's message only
HookFailureRaw(f, generic) ==
  [success |-> FALSE, error |-> IF f.status = NoResponse THEN Absent ELSE f.message]

\* a variant that reports success in the catch block
HookFailureSwallowed(f, generic) ==
  [success |-> TRUE, error |-> ErrorMessage(f, generic)]

\* what createTicket / updateTicket / deleteTicket return on failure
HookFailure(f, generic) == [success |-> FALSE, error |-> ErrorMessage(f, generic)]

\* what fetchTickets leaves in the error state on failure
\* a variant that ignores the server's message
FetchErrorGeneric(f) == "Error al cargar tickets"

FetchError(f) == ErrorMessage(f, "Error al cargar tickets")

\* list requests of the hook issued before (dir = -1) or after (dir = 1) the
\* one at position i and still outstanding
OtherFetches(i, dir) ==
  {j \in 1..Len(ticketNet) : ticketNet[j].kind = "list" /\ (j - i) * dir > 0}

\* the record of the fetch issued last, after the fetch at position i settled as out
LastAfter(i, out) ==
  IF OtherFetches(i, 1) = {} /\ OtherFetches(i, -1) = {} THEN NoLast
  ELSE IF hLast.state = "none" /\ OtherFetches(i, 1) = {}
       THEN IF IsOk(out) THEN [state |-> "ok", data |-> out.data]
                         ELSE [state |-> "failed", data |-> <<>>]
       ELSE hLast

FetchOk(i) ==
  /\ HookOk(i, "list")
  /\ LET req == ticketNet[i] IN
     /\ tickets' = IF req.live THEN Fetched(tickets, req.res.data) ELSE tickets
     /\ loading' = IF req.live THEN FALSE ELSE loading
     /\ ret' = Returned("fetchTickets", req, req.res, Absent)
  /\ hLast' = LastAfter(i, ticketNet[i].res)
  /\ UNCHANGED <<error, calls, hCreated, hDeleted>>

FetchFail(i, f) ==
  /\ HookFail(i, "list", f)
  /\ LET req == ticketNet[i] IN
     /\ error' = IF req.live THEN FetchError(f) ELSE error
     /\ loading' = IF req.live THEN FALSE ELSE loading
     /\ ret' = Returned("fetchTickets", req, f, Absent)
  /\ hLast' = LastAfter(i, f)
  /\ UNCHANGED <<tickets>>

CreateOk(i) ==
  /\ HookOk(i, "create")
  /\ LET req == ticketNet[i] IN
     /\ tickets' = IF req.live THEN Prepended(tickets, req.res.data) ELSE tickets
     /\ hCreated' = hCreated \cup {req.res.data.id}
     /\ ret' = Returned("createTicket", req, req.res,
                        [success |-> TRUE, data |-> req.res.data])
  /\ UNCHANGED <<loading, error, calls, hDeleted, hLast>>

CreateFail(i, f) ==
  /\ HookFail(i, "create", f)
  /\ ret' = Returned("createTicket", ticketNet[i], f, HookFailure(f, "Error al crear ticket"))
  /\ UNCHANGED <<tickets, loading, error, hLast>>

UpdateOk(i) ==
  /\ HookOk(i, "update")
  /\ LET req == ticketNet[i] IN
     /\ tickets' = IF req.live THEN Replaced(tickets, req.arg.id, req.res.data) ELSE tickets
     /\ ret' = Returned("updateTicket", req, req.res,
                        [success |-> TRUE, data |-> req.res.data])
  /\ UNCHANGED <<loading, error, histVars>>

UpdateFail(i, f) ==
  /\ HookFail(i, "update", f)
  /\ ret' = Returned("updateTicket", ticketNet[i], f, HookFailure(f, "Error al actualizar ticket"))
  /\ UNCHANGED <<tickets, loading, error, hLast>>

DeleteOk(i) ==
  /\ HookOk(i, "delete")
  /\ LET req == ticketNet[i] IN
     /\ tickets' = IF req.live THEN Removed(tickets, req.arg.id) ELSE tickets
     /\ hDeleted' = hDeleted \cup {req.arg.id}
     /\ ret' = Returned("deleteTicket", req, req.res, [success |-> TRUE])
  /\ UNCHANGED <<loading, error, calls, hCreated, hLast>>

DeleteFail(i, f) ==
  /\ HookFail(i, "delete", f)
  /\ ret' = Returned("deleteTicket", ticketNet[i], f, HookFailure(f, "Error al eliminar ticket"))
  /\ UNCHANGED <<tickets, loading, error, hLast>>

TicketData == {[title |-> t] : t \in Titles}
UpdateData == {[status |-> "CLOSED"]}
AllFailures == Failures \cup {Failure(404, ServerMsg)}

NextHook ==
  \/ FetchTickets
  \/ \E d \in TicketData : CreateTicket(d)
  \/ \E id \in Ids(tickets), d \in UpdateData : UpdateTicket(id, d)
  \/ \E id \in Ids(tickets) : DeleteTicket(id)
  \/ \E i \in 1..MaxInFlight : ServeHook(i)
  \/ \E i \in 1..MaxInFlight : FetchOk(i)
  \/ \E i \in 1..MaxInFlight, f \in AllFailures : FetchFail(i, f)
  \/ \E i \in 1..MaxInFlight : CreateOk(i)
  \/ \E i \in 1..MaxInFlight, f \in AllFailures : CreateFail(i, f)
  \/ \E i \in 1..MaxInFlight : UpdateOk(i)
  \/ \E i \in 1..MaxInFlight, f \in AllFailures : UpdateFail(i, f)
  \/ \E i \in 1..MaxInFlight : DeleteOk(i)
  \/ \E i \in 1..MaxInFlight, f \in AllFailures : DeleteFail(i, f)

\* A signed-in session on the Tickets page with its hook just mounted, or the
\* legacy App just mounted: either of the two clients of the backend.
InitTickets ==
  /\ calls = 0
  /\ hCreated = {}
  /\ hDeleted = {}
  /\ hLast = NoLast
  /\ token = "t1"
  /\ user = "alice"
  /\ authLoading = FALSE
  /\ route = "/tickets"
  /\ navPending = FALSE
  /\ formError = ""
  /\ formLoading = FALSE
  /\ authNet = <<>>
  /\ tickets = <<>>
  /\ error = Absent
  /\ ticketsMounted \in BOOLEAN
  /\ loading = ticketsMounted
  /\ ticketNet = IF ticketsMounted
                 THEN <<Request("list", NoArg, Known)>>
                 ELSE <<>>
  /\ backendStatus = "checking"
  /\ dbStatus = "checking"
  /\ timerActive = TRUE
  /\ healthNet = CheckHealthRequests
  /\ srvTickets = <<>>
  /\ nextId = 1
  /\ appMounted = ~ticketsMounted
  /\ appTickets = <<>>
  /\ title = <<>>
  /\ appNet = IF appMounted THEN AppFetchRequests ELSE <<>>
  /\ ret = NoRet


(* ----------------------------- legacy App ------------------------------ *)
\* String.prototype.trim on a character sequence
RECURSIVE TrimStart(_)
TrimStart(s) == IF s # <<>> /\ Head(s) = " " THEN TrimStart(Tail(s)) ELSE s

RECURSIVE TrimEnd(_)
TrimEnd(s) ==
  IF s # <<>> /\ s[Len(s)] = " " THEN TrimEnd(SubSeq(s, 1, Len(s) - 1)) ELSE s

\* a variant of the blank test without trim(): if (!title) return
TrimNone(s) == s

Trim(s) == TrimEnd(TrimStart(s))

\* the input's onChange
AppSetTitle(t) ==
  /\ appMounted
  /\ t # title
  /\ title' = t
  /\ ret' = NoRet
  /\ UNCHANGED <<appMounted, appTickets, appNet>>
  /\ UNCHANGED <<authVars, hookVars, healthVars, srvVars, histVars>>

\* App.handleAdd with a blank title: it returns at once
AppHandleAddBlank ==
  /\ appMounted
  /\ Trim(title) = <<>>
  /\ ret' = [op |-> "handleAdd", threw |-> FALSE, value |-> Absent]
  /\ UNCHANGED <<authVars, hookVars, healthVars, srvVars, appVars, histVars>>

\* App.handleAdd up to its await: createTicket(title)
AppHandleAdd ==
  /\ appMounted
  /\ Trim(title) # <<>>
  /\ Len(appNet) < MaxInFlight
  /\ calls < MaxCalls
  /\ calls' = calls + 1
  /\ appNet' = Append(appNet, AppRequest("create", [id |-> 0, data |-> [title |-> title]], {}))
  /\ ret' = NoRet
  /\ UNCHANGED <<appMounted, appTickets, title, hCreated, hDeleted, hLast>>
  /\ UNCHANGED <<authVars, hookVars, healthVars, srvVars>>

\* the backend handles the i-th outstanding request of the legacy App
ServeApp(i) ==
  /\ i \in 1..Len(appNet)
  /\ CanServe(appNet[i])
  /\ LET r == Served(appNet[i]) IN
     /\ appNet' = [appNet EXCEPT ![i].processed = TRUE, ![i].res = r[1]]
     /\ srvTickets' = r[2]
     /\ nextId' = r[3]
  /\ ret' = NoRet
  /\ UNCHANGED <<appMounted, appTickets, title>>
  /\ UNCHANGED <<authVars, hookVars, healthVars, histVars>>

\* how a fetch() of the legacy api.js can resolve: with the backend's answer,
\* or with an error status and the body the server sends with it
AppAnswers == {"served", ServerMsg}
AppAnswer(req, a) == IF a = "served" THEN req.res ELSE Failure(500, a)

\* what res.json() yields for a response
Json(out) == IF IsOk(out) THEN out.data ELSE [message |-> out.message]

\* handleAdd after createTicket: setTitle(""), then fetchTickets()
AppCreateDone(i, a) ==
  /\ i \in 1..Len(appNet)
  /\ appNet[i].kind = "create"
  /\ a = "served" => appNet[i].processed
  /\ LET out == AppAnswer(appNet[i], a) IN
     /\ hCreated' = IF IsOk(out) THEN hCreated \cup {out.data.id} ELSE hCreated
     /\ ret' = Returned("handleAdd", appNet[i], out, Absent)
  /\ title' = <<>>
  /\ appNet' = Append(RemoveAt(appNet, i),
                      AppRequest("list", NoArg, [created |-> hCreated', deleted |-> hDeleted]))
  /\ UNCHANGED <<appMounted, appTickets, calls, hDeleted, hLast>>
  /\ UNCHANGED <<authVars, hookVars, healthVars, srvVars>>

\* fetch() rejected: createTicket and with it handleAdd reject
AppCreateThrow(i) ==
  /\ i \in 1..Len(appNet)
  /\ appNet[i].kind = "create"
  /\ appNet' = RemoveAt(appNet, i)
  /\ ret' = Threw("handleAdd", appNet[i], Failure(NoResponse, Absent))
  /\ UNCHANGED <<appMounted, appTickets, title>>
  /\ UNCHANGED <<authVars, hookVars, healthVars, srvVars, histVars>>

\* App.fetchTickets after getTickets: setTickets(data)
AppListDone(i, a) ==
  /\ i \in 1..Len(appNet)
  /\ appNet[i].kind = "list"
  /\ a = "served" => appNet[i].processed
  /\ LET out == AppAnswer(appNet[i], a) IN
     /\ appTickets' = Json(out)
     /\ ret' = Returned("appFetchTickets", appNet[i], out, Absent)
  /\ appNet' = RemoveAt(appNet, i)
  /\ UNCHANGED <<appMounted, title>>
  /\ UNCHANGED <<authVars, hookVars, healthVars, srvVars, histVars>>

\* fetch() rejected: getTickets and with it fetchTickets reject
AppListThrow(i) ==
  /\ i \in 1..Len(appNet)
  /\ appNet[i].kind = "list"
  /\ appNet' = RemoveAt(appNet, i)
  /\ ret' = Threw("appFetchTickets", appNet[i], Failure(NoResponse, Absent))
  /\ UNCHANGED <<appMounted, appTickets, title>>
  /\ UNCHANGED <<authVars, hookVars, healthVars, srvVars, histVars>>

NextApp ==
  \/ \E t \in AppTitles : AppSetTitle(t)
  \/ AppHandleAddBlank
  \/ AppHandleAdd
  \/ \E i \in 1..MaxInFlight : ServeApp(i)
  \/ \E i \in 1..MaxInFlight, a \in AppAnswers : AppCreateDone(i, a)
  \/ \E i \in 1..MaxInFlight : AppCreateThrow(i)
  \/ \E i \in 1..MaxInFlight, a \in AppAnswers : AppListDone(i, a)
  \/ \E i \in 1..MaxInFlight : AppListThrow(i)

\* the clients of the backend: the ticket hook and the legacy App
NextTickets == NextHook \/ NextApp \/ PageLoad

SpecTickets == InitTickets /\ [][NextTickets]_vars

(* ---------------------------- useApiHealth ----------------------------- *)
\* a variant whose timer is never cleared: the tick fires after teardown too
HealthTickUncleared ==
  /\ Len(healthNet) < MaxInFlight
  /\ healthNet' = healthNet \o CheckHealthRequests
  /\ ret' = NoRet
  /\ UNCHANGED <<backendStatus, dbStatus, timerActive>>
  /\ UNCHANGED <<authVars, hookVars, srvVars, appVars, histVars>>

\* the timer fires: checkHealth up to its first await
HealthTick ==
  /\ timerActive
  /\ Len(healthNet) < MaxInFlight
  /\ healthNet' = healthNet \o CheckHealthRequests
  /\ ret' = NoRet
  /\ UNCHANGED <<backendStatus, dbStatus, timerActive>>
  /\ UNCHANGED <<authVars, hookVars, srvVars, appVars, histVars>>

\* the effect's cleanup: clearInterval(interval)
HealthTeardown ==
  /\ timerActive
  /\ timerActive' = FALSE
  /\ healthNet' = Orphan(healthNet)
  /\ ret' = NoRet
  /\ UNCHANGED <<backendStatus, dbStatus>>
  /\ UNCHANGED <<authVars, hookVars, srvVars, appVars, histVars>>

\* how a finished checkHealth call ended: which probes it made and how they went
Checked(req, backend, db, out) ==
  [op |-> "checkHealth", threw |-> FALSE, live |-> req.live,
   backend |-> backend, db |-> db, out |-> out, value |-> Absent]

\* the status checkHealth sets after a probe succeeded
AfterProbeOk(req, status) == IF req.live THEN "healthy" ELSE status

\* the backend status checkHealth sets in its catch block
BackendAfterCatch(req) == IF req.live THEN "unhealthy" ELSE backendStatus

\* the database status checkHealth sets in its catch block
DbAfterCatch(req) == IF req.live THEN "unhealthy" ELSE dbStatus

\* checkBackend resolved: setBackendStatus('healthy'), then checkDatabase goes out
BackendOk(i) ==
  /\ i \in 1..Len(healthNet)
  /\ healthNet[i].kind = "backend"
  /\ backendStatus' = AfterProbeOk(healthNet[i], backendStatus)
  /\ healthNet' = Append(RemoveAt(healthNet, i),
                         [Request("db", NoArg, {}) EXCEPT !.live = healthNet[i].live])
  /\ ret' = NoRet
  /\ UNCHANGED <<dbStatus, timerActive>>
  /\ UNCHANGED <<authVars, hookVars, srvVars, appVars, histVars>>

\* a probe rejected, through the response interceptor: the catch block
ProbeFail(i, f) ==
  /\ i \in 1..Len(healthNet)
  /\ token' = InterceptToken(f)
  /\ navPending' = InterceptNav(f)
  /\ backendStatus' = BackendAfterCatch(healthNet[i])
  /\ dbStatus' = DbAfterCatch(healthNet[i])
  /\ healthNet' = RemoveAt(healthNet, i)
  /\ ret' = IF healthNet[i].kind = "backend"
            THEN Checked(healthNet[i], "failed", "skipped", f)
            ELSE Checked(healthNet[i], "ok", "failed", f)
  /\ UNCHANGED <<timerActive>>
  /\ UNCHANGED <<user, authLoading, route, formError, formLoading, authNet>>
  /\ UNCHANGED <<hookVars, srvVars, appVars, histVars>>

\* checkDatabase resolved: setDbStatus('healthy')
DbOk(i) ==
  /\ i \in 1..Len(healthNet)
  /\ healthNet[i].kind = "db"
  /\ dbStatus' = AfterProbeOk(healthNet[i], dbStatus)
  /\ healthNet' = RemoveAt(healthNet, i)
  /\ ret' = Checked(healthNet[i], "ok", "ok", Success(<<>>))
  /\ UNCHANGED <<backendStatus, timerActive>>
  /\ UNCHANGED <<authVars, hookVars, srvVars, appVars, histVars>>

NextHealth ==
  \/ HealthTick
  \/ HealthTeardown
  \/ \E i \in 1..MaxInFlight : BackendOk(i)
  \/ \E i \in 1..MaxInFlight, f \in Failures : ProbeFail(i, f)
  \/ \E i \in 1..MaxInFlight : DbOk(i)
  \/ PageLoad

SpecHealth == Init /\ [][NextHealth]_vars

(* --------------------------- the whole program ------------------------- *)
Next ==
  \/ NextSession
  \/ NextHook
  \/ MountTickets
  \/ UnmountTickets
  \/ NextHealth
  \/ NextApp

Spec == Init /\ [][Next]_vars

(* ======================================================================= *)
(*                               properties                                *)
(* --------------- one client, one ticket call at a time ----------------- *)
\* the tables the backend can hold when the Tickets view is opened
ServerTables == {<<>>, <<NewTicket(1, [title |-> <<"P">>])>>}

\* the Tickets view has just mounted useTickets: the effect's fetchTickets is
\* outstanding, and the backend may hold a ticket of an earlier visit
InitSerial ==
  /\ calls = 0
  /\ hCreated = {}
  /\ hDeleted = {}
  /\ hLast = NoLast
  /\ token = "t1"
  /\ user = "alice"
  /\ authLoading = FALSE
  /\ route = "/tickets"
  /\ navPending = FALSE
  /\ formError = ""
  /\ formLoading = FALSE
  /\ authNet = <<>>
  /\ tickets = <<>>
  /\ error = Absent
  /\ ticketsMounted = TRUE
  /\ loading = TRUE
  /\ ticketNet = <<Request("list", NoArg, Known)>>
  /\ backendStatus = "checking"
  /\ dbStatus = "checking"
  /\ timerActive = TRUE
  /\ healthNet = CheckHealthRequests
  /\ srvTickets \in ServerTables
  /\ nextId = Len(srvTickets) + 1
  /\ appMounted = FALSE
  /\ appTickets = <<>>
  /\ title = <<>>
  /\ appNet = <<>>
  /\ ret = NoRet

\* the Tickets view offers its form and its buttons: it renders neither
\* "Cargando tickets..." nor the error, and no earlier call is outstanding
Quiet == ticketNet = <<>> /\ ~loading /\ error = Absent

\* Tickets.handleCreateTicket: await createTicket(newTicket)
HandleCreateTicket(data) == Quiet /\ CreateTicket(data)

\* a consumer's updateTicket(id, data), called the same way
HandleUpdate(id, data) == Quiet /\ UpdateTicket(id, data)

\* Tickets.handleDelete: await deleteTicket(id)
HandleDelete(id) == Quiet /\ DeleteTicket(id)

NextSerial ==
  \/ \E d \in TicketData : HandleCreateTicket(d)
  \/ \E id \in Ids(tickets), d \in UpdateData : HandleUpdate(id, d)
  \/ \E id \in Ids(tickets) : HandleDelete(id)
  \/ \E i \in 1..MaxInFlight : ServeHook(i)
  \/ \E i \in 1..MaxInFlight : FetchOk(i)
  \/ \E i \in 1..MaxInFlight, f \in AllFailures : FetchFail(i, f)
  \/ \E i \in 1..MaxInFlight : CreateOk(i)
  \/ \E i \in 1..MaxInFlight, f \in AllFailures : CreateFail(i, f)
  \/ \E i \in 1..MaxInFlight : UpdateOk(i)
  \/ \E i \in 1..MaxInFlight, f \in AllFailures : UpdateFail(i, f)
  \/ \E i \in 1..MaxInFlight : DeleteOk(i)
  \/ \E i \in 1..MaxInFlight, f \in AllFailures : DeleteFail(i, f)
  \/ PageLoad

SpecSerial == InitSerial /\ [][NextSerial]_vars

(* ======================================================================= *)
AuthOps == {"login", "register"}
MutatorOps == {"fetchTickets", "createTicket", "updateTicket", "deleteTicket"}
Succeeded(r, op) == r.op = op /\ IsOk(r.out)

\* identifiers the backend has handed out and later deleted
Gone == {id \in 1..(nextId - 1) : id \notin Ids(srvTickets)}

\* C1: once a request has received a 401, whatever else is in flight, the
\* redirect to the login view that the 401 started ends with the session
\* anonymous: no token in localStorage and no user held by the session hook.
C1_UnauthorizedEndsAnonymous ==
  [][navPending /\ ~navPending' => token' = Absent /\ user' = Absent]_vars

\* C2: when login or register succeeds, the response's token is in
\* localStorage, the response's user is the session's user (isAuthenticated),
\* and the call returns success.
C2_LoginStoresToken ==
  ret.op \in AuthOps /\ IsOk(ret.out) =>
    /\ ~ret.threw
    /\ ret.value.success
    /\ token = ret.out.data.token
    /\ user = ret.out.data.user
    /\ user # Absent

C2_Witness ==
  /\ Succeeded(ret, "login")
  /\ token = "t2"
  /\ user = "bob"
  /\ route = "/"

\* C3: a failed login or register does not throw, returns a non-empty error
\* string (the server's message if it gave one, else the generic one), stores
\* no token and sets no user: an anonymous session stays anonymous.
C3_FailedLoginStaysAnonymous ==
  [][ret'.op \in AuthOps /\ ~IsOk(ret'.out) =>
       /\ ~ret'.threw
       /\ ret'.value.success = FALSE
       /\ Truthy(ret'.value.error)
       /\ IF ret'.out.status # NoResponse /\ ret'.out.message \notin {Absent, ""}
          THEN ret'.value.error = ret'.out.message
          ELSE ret'.value.error \in {"Error en el login", "Error en el registro"}
       /\ token' \in {token, Absent}
       /\ user' = user
       /\ (token = Absent /\ user = Absent => token' = Absent /\ user' = Absent)
       /\ (ret'.live => formError' = ret'.value.error /\ ~formLoading')]_vars

C3_Witness ==
  /\ ret.op = "login"
  /\ ret.out.status = Unauthorized
  /\ ret.value.error = ServerMsg
  /\ formError = ServerMsg
  /\ token = Absent
  /\ user = Absent

\* C4: when a list fetch that was issued after a ticket's creation had been
\* reported completes, the local list (of the hook, of the legacy App) holds
\* that ticket exactly once, as long as the ticket exists.
C4_CreatedTicketListedOnce ==
  /\ Succeeded(ret, "fetchTickets") /\ ret.live =>
       \A id \in ret.hist.created \ Gone : Count(tickets, id) = 1
  /\ Succeeded(ret, "appFetchTickets") =>
       \A id \in ret.hist.created \ Gone : Count(appTickets, id) = 1

C4_Witness ==
  /\ Succeeded(ret, "fetchTickets")
  /\ ret.hist.created = {1}
  /\ Count(tickets, 1) = 1

\* C5: a successful deleteTicket(id) removes from the local list exactly the
\* entries with that identifier, keeping the others and their order, and the
\* result of a fetch issued later does not contain the ticket.
C5_DeleteRemovesExactlyThatTicket ==
  [][/\ Succeeded(ret', "deleteTicket") /\ ret'.live =>
          tickets' = SelectSeq(tickets, LAMBDA t : t.id # ret'.arg.id)
     /\ Succeeded(ret', "fetchTickets") /\ ret'.live =>
          \A id \in ret'.hist.deleted : Count(tickets', id) = 0]_vars

C5_Witness ==
  /\ Succeeded(ret, "deleteTicket")
  /\ ret.arg.id = 1
  /\ Ids(tickets) = {2}

\* C6: a successful updateTicket(id, data) puts the server-returned record in
\* the place of every local record with that identifier and leaves the other
\* records, the length and the order of the list as they were.
C6_UpdateReplacesOnlyThatTicket ==
  [][Succeeded(ret', "updateTicket") /\ ret'.live =>
       /\ Len(tickets') = Len(tickets)
       /\ \A k \in 1..Len(tickets) :
            tickets'[k] = IF tickets[k].id = ret'.arg.id THEN ret'.out.data ELSE tickets[k]]_vars

C6_Witness ==
  /\ Succeeded(ret, "updateTicket")
  /\ Len(tickets) = 2
  /\ \E k \in 1..2 : tickets[k].status = "CLOSED" /\ tickets[k].id = ret.arg.id
  /\ \E k \in 1..2 : tickets[k].status = "OPEN"

\* the list requests among the outstanding requests of the hook
ListRequests(net) == {i \in 1..Len(net) : net[i].kind = "list"}

\* C7: a successful createTicket leaves the local list equal to the returned
\* record followed by the previous list, and sends no list request.
C7_CreatePrependsWithoutFetch ==
  [][Succeeded(ret', "createTicket") /\ ret'.live =>
       /\ tickets' = <<ret'.out.data>> \o tickets
       /\ Len(ticketNet') = Len(ticketNet) - 1
       /\ Cardinality(ListRequests(ticketNet')) = Cardinality(ListRequests(ticketNet))]_vars

C7_Witness ==
  /\ Succeeded(ret, "createTicket")
  /\ Len(tickets) = 2
  /\ tickets[1].id = 2
  /\ tickets[2].id = 1

\* C8 as stated: every mutator of the hook catches a failure of its call,
\* does not throw, and stores a readable message in the hook's error state.
C8_EveryMutatorStoresError ==
  ret.op \in MutatorOps /\ ~IsOk(ret.out) /\ ret.live => ~ret.threw /\ Truthy(error)

\* C8 amended: no mutator throws; fetchTickets stores the message (the
\* server's, else the generic one) in the error state; createTicket,
\* updateTicket and deleteTicket return it in {success: false, error} and
\* leave the error state as it was.
C8_MutatorsCatchFailures ==
  [][ret'.op \in MutatorOps /\ ~IsOk(ret'.out) /\ ret'.live =>
       /\ ~ret'.threw
       /\ IF ret'.op = "fetchTickets"
          THEN /\ Truthy(error')
               /\ error' \in {ret'.out.message, "Error al cargar tickets"}
          ELSE /\ error' = error
               /\ ret'.value.success = FALSE
               /\ Truthy(ret'.value.error)
               /\ ret'.value.error \in
                    {ret'.out.message, "Error al crear ticket",
                     "Error al actualizar ticket", "Error al eliminar ticket"}]_vars

C8_Witness ==
  /\ ret.op = "createTicket"
  /\ ret.out.status = 500
  /\ ret.value.error = "Error al crear ticket"
  /\ error = Absent
  /\ ~loading

\* C9: when a health check completes, both statuses are "healthy" if both of
\* its probes succeeded and both are "unhealthy" if one of them failed; the
\* check does not throw.
C9_BothStatusesFollowCheck ==
  ret.op = "checkHealth" /\ ret.live =>
    /\ ~ret.threw
    /\ IF ret.backend = "ok" /\ ret.db = "ok"
       THEN backendStatus = "healthy" /\ dbStatus = "healthy"
       ELSE backendStatus = "unhealthy" /\ dbStatus = "unhealthy"

\* C10: when a health check completes, backendStatus is "healthy" exactly if
\* its backend probe succeeded and dbStatus is "healthy" exactly if its
\* database probe succeeded.
C10_StatusesIndependent ==
  ret.op = "checkHealth" /\ ret.live =>
    /\ backendStatus = "healthy" <=> ret.backend = "ok"
    /\ dbStatus = "healthy" <=> ret.db = "ok"

\* the outstanding requests of one kind
Outstanding(net, kind) == Cardinality({i \in 1..Len(net) : net[i].kind = kind})

\* the step is the load of a new document
Reloaded == navPending /\ ~navPending'

\* C11 as stated: the document's mount starts one check; once the view is
\* torn down the timer is cleared and no health probe, backend or database,
\* is started any more.
C11_NoProbeAfterTeardown ==
  [][/\ Reloaded => healthNet' = CheckHealthRequests' /\ timerActive'
     /\ ~timerActive /\ ~Reloaded =>
          /\ ~timerActive'
          /\ Outstanding(healthNet', "backend") <= Outstanding(healthNet, "backend")
          /\ Outstanding(healthNet', "db") <= Outstanding(healthNet, "db")]_vars

\* C11 amended: the mount starts one check and every tick of the live timer
\* one more; once the view is torn down the timer stays cleared and no check
\* is started; the only probe that can still go out is the database probe of
\* a check that was awaiting its backend probe.
C11_NoCheckAfterTeardown ==
  [][/\ Reloaded => healthNet' = CheckHealthRequests' /\ timerActive'
     /\ ~Reloaded /\ Outstanding(healthNet', "backend") > Outstanding(healthNet, "backend") =>
          /\ timerActive /\ timerActive'
          /\ healthNet' = healthNet \o CheckHealthRequests
     /\ ~timerActive /\ ~Reloaded =>
          /\ ~timerActive'
          /\ Outstanding(healthNet', "backend") <= Outstanding(healthNet, "backend")
          /\ Outstanding(healthNet', "db") > Outstanding(healthNet, "db") =>
               /\ Outstanding(healthNet', "backend") = Outstanding(healthNet, "backend") - 1
               /\ Len(healthNet') = Len(healthNet)]_vars

C11_Witness ==
  /\ ~timerActive
  /\ ~navPending
  /\ Outstanding(healthNet, "db") = 1
  /\ Outstanding(healthNet, "backend") = 0
  /\ \A i \in 1..Len(healthNet) : ~healthNet[i].live

\* C12: on mount of the session provider, a stored token makes checkAuth send
\* verify-token, and no stored token makes it send nothing and leave the user
\* null with loading false; when the verify call settles, loading is false,
\* and either the user is the one of the response or, on failure, no token is
\* stored and the user is null.
C12_CheckAuthOnMount ==
  [][/\ Reloaded =>
          /\ user' = Absent
          /\ IF Truthy(token')
             THEN authLoading' /\ Len(authNet') = 1 /\ authNet'[1].kind = "verify"
             ELSE ~authLoading' /\ authNet' = <<>>
     /\ ret'.op = "checkAuth" =>
          /\ ~ret'.threw
          /\ ~authLoading'
          /\ IF IsOk(ret'.out)
             THEN user' = ret'.out.data
             ELSE token' = Absent /\ user' = Absent]_vars

\* C13: logout leaves no token in localStorage and the user null, sends no
\* request and completes in the task that called it; the state it leaves is
\* the state a further logout would leave, also when no token was stored.
C13_LogoutIsLocalAndIdempotent ==
  [][ret'.op = "logout" =>
       /\ ~ret'.threw
       /\ token' = Absent
       /\ user' = Absent
       /\ authNet' = authNet /\ ticketNet' = ticketNet /\ healthNet' = healthNet
       /\ LogoutState([token |-> token', user |-> user']) = [token |-> token', user |-> user']]_vars

C13_Witness ==
  /\ ret.op = "logout"
  /\ ret.had = Absent
  /\ token = Absent
  /\ user = Absent
  /\ route = "/login"

\* the session's state: authenticated is the provider's isAuthenticated (!!user);
\* authenticating is not authenticated with a verify, login or register call pending
SessionState ==
  IF user # Absent THEN "authenticated"
  ELSE IF authNet # <<>> THEN "authenticating" ELSE "anonymous"

AttemptOps == AuthOps \cup {"checkAuth"}

\* C14: the session becomes authenticated only from authenticating, as the
\* outcome of a verify, login or register call that succeeded, and every such
\* success leaves it authenticated; it leaves authenticated only by logout or
\* by the reload that a 401 response started; a failed login or register
\* returns an error message and leaves a session that was not authenticated
\* not authenticated.
C14_SessionStateMachine ==
  [][/\ user = Absent /\ user' # Absent =>
          /\ SessionState = "authenticating"
          /\ ret'.op \in AttemptOps /\ IsOk(ret'.out)
          /\ user' = IF ret'.op = "checkAuth" THEN ret'.out.data ELSE ret'.out.data.user
     /\ ret'.op \in AttemptOps /\ IsOk(ret'.out) => SessionState' = "authenticated"
     /\ user # Absent /\ user' = Absent => ret'.op = "logout" \/ Reloaded
     /\ ~navPending /\ navPending' => ret'.out.status = Unauthorized
     /\ ret'.op \in AuthOps /\ ~IsOk(ret'.out) =>
          /\ Truthy(ret'.value.error)
          /\ ret'.live => formError' = ret'.value.error
          /\ SessionState = "authenticating" => SessionState' \in {"anonymous", "authenticating"}
     /\ SessionState = "anonymous" /\ ~Reloaded => SessionState' \in {"anonymous", "authenticating"}]_vars

C14_Witness ==
  /\ ret.op = "register"
  /\ ~IsOk(ret.out)
  /\ SessionState = "anonymous"
  /\ formError = "Error en el registro"
  /\ ~navPending

\* what the router shows at the current location
Rendered ==
  IF route \in Protected THEN ProtectedRoute(user # Absent, authLoading) ELSE "login"

\* C15: a protected view is on screen only while the session is
\* authenticated; a session that is not authenticated and whose check has
\* finished is at /login, never at a protected route; while the check is
\* loading a protected route shows neither its view nor the redirect.
C15_ProtectedViewsNeedSession ==
  /\ Rendered = "children" => user # Absent /\ ~authLoading
  /\ user = Absent /\ ~authLoading => route = "/login"
  /\ Rendered # "redirect"
  /\ route \in Protected /\ authLoading => Rendered = "loading"
  /\ \A a \in BOOLEAN, l \in BOOLEAN :
       /\ ProtectedRoute(a, l) = "children" <=> a /\ ~l
       /\ ProtectedRoute(a, l) = "redirect" <=> ~a /\ ~l
       /\ ProtectedRoute(a, l) = "loading" <=> l

C15_Witness ==
  /\ ret.op = "checkAuth"
  /\ ret.out.status = 500
  /\ user = Absent
  /\ ~authLoading
  /\ route = "/login"
  /\ ~navPending

\* the positions in net2 of the requests sent in the step from net to net2
NewIn(net, net2) ==
  IF Reloaded THEN 1..Len(net2)
  ELSE IF Len(net2) > Len(net) THEN {Len(net2)} ELSE {}

\* C16: a request carries an Authorization header exactly if a token is in
\* localStorage when it is sent, and the header is "Bearer " followed by that
\* token; a logout or a 401 leaves no token, and only a successful login or
\* register stores one again, so no request sent in between carries a token.
C16_BearerHeaderFollowsStorage ==
  [][/\ \A i \in NewIn(authNet, authNet') :
          /\ authNet'[i].auth # Absent <=> Truthy(token)
          /\ Truthy(token) => authNet'[i].auth = "Bearer " \o token
     /\ \A i \in NewIn(healthNet, healthNet') :
          /\ healthNet'[i].auth # Absent <=> Truthy(token)
          /\ Truthy(token) => healthNet'[i].auth = "Bearer " \o token
     /\ ret'.op = "logout" => token' = Absent
     /\ ret'.op \in AttemptOps /\ ret'.out.status = Unauthorized => token' = Absent
     /\ token = Absent /\ token' # Absent => ret'.op \in AuthOps /\ IsOk(ret'.out)]_vars

C16_Witness ==
  /\ token = Absent
  /\ user = Absent
  /\ ~navPending
  /\ Len(authNet) = 2
  /\ authNet[1].kind = "login" /\ authNet[1].auth = "Bearer t1"
  /\ authNet[2].kind = "register" /\ authNet[2].auth = Absent

\* C17: an error whose status is not 401 passes the response interceptor
\* unchanged, and the interceptor leaves the stored token alone and starts no
\* navigation; a login or register call that fails so leaves token, pending
\* navigation and route as they were, and a session check that fails so
\* starts no navigation.
C17_OtherErrorsPassThrough ==
  [][/\ \A f \in Failures : f.status # Unauthorized =>
          /\ Rejected(f) = f
          /\ InterceptToken(f) = token
          /\ InterceptNav(f) = navPending
     /\ ret'.op \in AuthOps /\ ~IsOk(ret'.out) /\ ret'.out.status # Unauthorized =>
          /\ token' = token
          /\ navPending' = navPending
          /\ route' = route
     /\ ret'.op = "checkAuth" /\ ~IsOk(ret'.out) /\ ret'.out.status # Unauthorized =>
          navPending' = navPending]_vars

C17_Witness ==
  /\ ret.op = "login"
  /\ ret.out.status = 500
  /\ token = "t1"
  /\ route = "/login"
  /\ ~navPending

\* the mutable state a flow reads or writes between its start and its end:
\* every request reads authToken when sent and removes it on a 401
Accesses(kind) ==
  CASE kind = "verify" -> {"token", "user", "authLoading"}
    [] kind \in {"login", "register"} -> {"token", "user"}
    [] kind \in {"backend", "db"} -> {"token", "backendStatus", "dbStatus"}
    [] kind = "list" -> {"token", "tickets", "loading", "error"}
    [] OTHER -> {"token", "tickets"}

\* the flows in progress before and after the step (the one that took the
\* step, if it ended, is no longer among them)
InProgress ==
  {authNet'[i].kind : i \in (1..Len(authNet')) \ NewIn(authNet, authNet')}
    \cup {healthNet'[i].kind : i \in (1..Len(healthNet')) \ NewIn(healthNet, healthNet')}

\* the pieces of session state that the step wrote
Written ==
  {v \in {"token"} : token' # token} \cup {v \in {"user"} : user' # user}
    \cup {v \in {"authLoading"} : authLoading' # authLoading}

\* C18: no two flows in progress at the same time access the same mutable
\* state: when a flow writes the token or a piece of hook state, no other
\* flow in progress reads or writes it.
C18_NoSharedMutableState ==
  [][~Reloaded => \A k \in InProgress : Accesses(k) \cap Written = {}]_vars

\* C19: a failed fetchTickets sets error to the server's message if the
\* response has a non-empty one and else to "Error al cargar tickets", leaves
\* the list as it was, throws nothing and sends no request; the start of a
\* fetch resets error to null.
C19_FetchFailureStoresMessage ==
  [][/\ ret'.op = "fetchTickets" /\ ~IsOk(ret'.out) /\ ret'.live =>
          /\ ~ret'.threw
          /\ error' = IF ret'.out.status # NoResponse /\ Truthy(ret'.out.message)
                      THEN ret'.out.message ELSE "Error al cargar tickets"
          /\ tickets' = tickets
          /\ Len(ticketNet') = Len(ticketNet) - 1
          /\ Outstanding(ticketNet', "list") = Outstanding(ticketNet, "list") - 1
     /\ Outstanding(ticketNet', "list") > Outstanding(ticketNet, "list") =>
          error' = Absent /\ loading']_vars

C19_Witness ==
  /\ ret.op = "fetchTickets"
  /\ ret.out.status = 500
  /\ ret.out.message = ServerMsg
  /\ error = ServerMsg
  /\ Len(tickets) = 1
  /\ ~loading

\* C20: loading is true from the start of a fetchTickets call until that call
\* settles and false after a fetch has settled, and whenever it is false no
\* list request of the hook is outstanding, also when fetches overlap.
C20_LoadingMeansOutstandingFetch ==
  [][/\ Outstanding(ticketNet', "list") > Outstanding(ticketNet, "list") => loading'
     /\ ret'.op = "fetchTickets" /\ ret'.live => ~loading'
     /\ ticketsMounted' /\ ~loading' => Outstanding(ticketNet', "list") = 0]_vars

\* C21: a successful fetch replaces the whole local list by its response,
\* and when the last of several overlapping fetches has settled, the local
\* list is the response to the fetch that was issued last, whatever the order
\* in which the responses arrived.
C21_LastIssuedFetchWins ==
  [][ret'.op = "fetchTickets" /\ ret'.live =>
       /\ IsOk(ret'.out) => tickets' = ret'.out.data
       /\ Outstanding(ticketNet', "list") = 0 /\ hLast.state = "ok" =>
            tickets' = hLast.data]_vars

\* a title that is empty or consists of spaces only
Blank(s) == \A k \in 1..Len(s) : s[k] = " "

\* the step is a handleAdd call that returned without awaiting anything
ReturnedAtOnce == ret'.op = "handleAdd" /\ "out" \notin DOMAIN ret'

\* C22: in the legacy App a handleAdd call with a blank title sends nothing
\* and changes nothing; a call with a non-blank title sends the create
\* request only, with that title; the list re-fetch is sent and the title
\* cleared only in the step in which the create call completes.
C22_HandleAddOrder ==
  [][/\ ReturnedAtOnce =>
          /\ Blank(title)
          /\ UNCHANGED <<appVars, srvVars, hookVars>>
     /\ Outstanding(appNet', "create") > Outstanding(appNet, "create") =>
          /\ ~Blank(title)
          /\ appNet' = Append(appNet, appNet'[Len(appNet')])
          /\ appNet'[Len(appNet')].arg.data.title = title
          /\ UNCHANGED <<title, appTickets>>
     /\ Outstanding(appNet', "list") > Outstanding(appNet, "list") =>
          /\ ret'.op = "handleAdd" /\ ~ReturnedAtOnce /\ ~ret'.threw
          /\ Outstanding(appNet', "create") = Outstanding(appNet, "create") - 1
          /\ title' = <<>>
     /\ ret'.op = "handleAdd" /\ ~ReturnedAtOnce /\ ret'.threw =>
          UNCHANGED <<title, appTickets>> /\ Len(appNet') = Len(appNet) - 1
     /\ title' = <<>> /\ title # <<>> =>
          ret' = NoRet \/ (ret'.op = "handleAdd" /\ ~ReturnedAtOnce /\ ~ret'.threw)]_vars

C22_Witness ==
  /\ ret.op = "handleAdd"
  /\ "out" \in DOMAIN ret
  /\ IsOk(ret.out)
  /\ title = <<>>
  /\ ret.arg.data.title = <<" ", "S">>
  /\ Outstanding(appNet, "list") = 1
  /\ Outstanding(appNet, "create") = 0

\* C23: the local ticket list of the hook never holds two entries with the
\* same identifier, in any interleaving of fetch, create, update and delete
\* calls and their responses.
C23_LocalIdsUnique ==
  \A id \in 1..MaxId : Count(tickets, id) <= 1

\* C24: whenever the session is authenticated (user non-null) and no reload
\* is under way, a token is in localStorage, in every interleaving of the
\* mount-time session check, login, register and logout.
C24_UserImpliesToken ==
  user # Absent /\ ~navPending => Truthy(token)

\* C25: a failed createTicket, updateTicket or deleteTicket leaves the local
\* list, the loading flag and the error state exactly as they were, does not
\* throw, and returns success: false with a non-empty error string.
C25_FailedMutatorsChangeNothing ==
  [][ret'.op \in {"createTicket", "updateTicket", "deleteTicket"}
       /\ ~IsOk(ret'.out) /\ ret'.live =>
       /\ UNCHANGED <<tickets, loading, error>>
       /\ ~ret'.threw
       /\ ret'.value.success = FALSE
       /\ Truthy(ret'.value.error)]_vars

C25_Witness ==
  /\ ret.op = "deleteTicket"
  /\ ~IsOk(ret.out)
  /\ Count(tickets, ret.arg.id) = 1
  /\ ret.value.error = "Error al eliminar ticket"
  /\ error = Absent
\* the create, update or delete call that completed in this step succeeded
MutatorSucceeded ==
  /\ ret'.op \in {"createTicket", "updateTicket", "deleteTicket"}
  /\ IsOk(ret'.out)
  /\ ret'.live

\* C26 (as stated): with one client, a backend that lists newest first and
\* ticket calls issued one at a time after the initial fetch, the hook's list
\* is the backend's table, record for record and in the same order, after
\* every create, update or delete that succeeded.
C26_SerialListEqualsServer ==
  [][MutatorSucceeded => tickets' = srvTickets']_vars

\* C26 (amended): under the same conditions, the hook's list is the backend's
\* table after every create, update or delete that succeeded, provided the
\* list was the backend's table when that call was issued; a call whose
\* effect the backend applied but whose response failed breaks this for the
\* calls after it.
C26_SyncedCallKeepsListEqual ==
  [][MutatorSucceeded /\ ret'.hist.synced => tickets' = srvTickets']_vars

\* a create issued on a list equal to the table has succeeded, and the list
\* holds the new ticket in front of an older one, as the table does
C26_Witness ==
  /\ Succeeded(ret, "createTicket")
  /\ ret.live
  /\ ret.hist.synced
  /\ Len(tickets) = 2
  /\ tickets = srvTickets

====
